---- MODULE Spec2Model ----
(***************************************************************************)
(* Release notes tooling: the section tree navigator (utils.py), the       *)
(* AsciiDoc renderer, the Antora index updater and the main pipeline       *)
(* (generate_asciidoc_release_notes.py).                                   *)
(*                                                                         *)
(* Text is a sequence of tokens (a token is a piece of a Python string     *)
(* that the code never splits); a Python dict is a record whose DOMAIN is  *)
(* the set of keys present, so  'k' in d  is  "k" \in DOMAIN d.            *)
(***************************************************************************)
EXTENDS Integers, Sequences, FiniteSets, TLC

VARIABLES
    tree,       \* navigator: the list of top-level sections
    navRes,     \* navigator: the last call, its arguments and what it returned
    data,       \* renderer: the release notes record handed to generate_asciidoc
    rendered,   \* renderer: what generate_asciidoc returned or raised
    backlink,   \* index: content of release-notes.adoc
    meta,       \* index: content of meta.yml
    adoc,       \* main: content of release-<version>.adoc, or NoFile
    pc,         \* main: position in main()
    env,        \* main: what the file system answers in this run
    idxRes      \* index: the last update_antora_structure call and the files before it

vars == <<tree, navRes, data, rendered, backlink, meta, adoc, pc, env, idxRes>>

----------------------------------------------------------------------------
(* Bounds                                                                  *)

MaxPathLen == 2
MaxNodes == 3
MaxChunks == 2
MaxMetaLines == 3
MaxCalls == 2
MaxSections == 2

----------------------------------------------------------------------------
(* Python helpers on lists and strings                                     *)

\* sub in s  (str.__contains__): sub occurs as a contiguous run of s
Contains(s, sub) ==
    \E i \in 0..(Len(s) - Len(sub)) : SubSeq(s, i + 1, i + Len(sub)) = sub

\* x in lst  (list.__contains__)
InList(lst, x) == \E i \in 1..Len(lst) : lst[i] = x

\* next(i for i, e in enumerate(lst) if test(e)), 1-based, given the list of
\* the tests' results; 0 when the generator is empty
FirstTrue(tests) ==
    IF \E i \in 1..Len(tests) : tests[i]
    THEN CHOOSE i \in 1..Len(tests) : tests[i] /\ \A j \in 1..(i - 1) : ~tests[j]
    ELSE 0

\* lst.insert(i, x) with a 1-based i
InsertAt(lst, i, x) == SubSeq(lst, 1, i - 1) \o <<x>> \o SubSeq(lst, i, Len(lst))

RECURSIVE Concat(_)
\* ''.join(parts)
Concat(parts) ==
    IF parts = <<>> THEN <<>> ELSE Head(parts) \o Concat(Tail(parts))

RECURSIVE Join(_, _)
\* sep.join(parts)
Join(sep, parts) ==
    IF parts = <<>> THEN <<>>
    ELSE IF Len(parts) = 1 THEN parts[1]
    ELSE parts[1] \o sep \o Join(sep, Tail(parts))

----------------------------------------------------------------------------
(* Section tree navigator: utils.py                                        *)

Names == {"A", "B", "Z"}

T1 == [id |-> "42", title |-> "Fix Y"]

\* the section dict built when a name is missing
NewSection(section_name, withSubsections) ==
    IF withSubsections
    THEN [name |-> section_name, tickets |-> <<>>, subsections |-> <<>>]
    ELSE [name |-> section_name, tickets |-> <<>>]

\* a lookup that takes the last sibling carrying the name
FirstMatchMutLast(current_level, section_name) ==
    IF \E i \in 1..Len(current_level) : current_level[i].name = section_name
    THEN CHOOSE i \in 1..Len(current_level) :
            /\ current_level[i].name = section_name
            /\ \A j \in (i + 1)..Len(current_level) : current_level[j].name # section_name
    ELSE 0

\* next((sec for sec in current_level if sec['name'] == section_name), None)
FirstMatch(current_level, section_name) ==
    FirstTrue([i \in 1..Len(current_level) |-> current_level[i].name = section_name])

\* section.get('subsections', [])
GetSubsections(section) ==
    IF "subsections" \in DOMAIN section THEN section.subsections ELSE <<>>

RECURSIVE FindFrom(_, _, _, _)
\* the loop of find_section from its i-th iteration; loc is the path of list
\* positions walked so far (it names the dict object the code returns)
FindFrom(current_level, section_names, i, loc) ==
    LET hit == FirstMatch(current_level, section_names[i])
    IN  IF hit = 0
        THEN [ok |-> FALSE, missing |-> section_names[i]]
        ELSE IF i = Len(section_names)
        THEN [ok |-> TRUE, node |-> current_level[hit], loc |-> Append(loc, hit)]
        ELSE FindFrom(GetSubsections(current_level[hit]), section_names, i + 1,
                      Append(loc, hit))

find_section(existing_sections, section_names) ==
    FindFrom(existing_sections, section_names, 1, <<>>)

\* the condition under which a created section gets a 'subsections' key
WithSubsectionsMutFlagOnly(section_names, include_subsections) ==
    include_subsections

WithSubsections(section_names, include_subsections) ==
    Len(section_names) > 1 \/ include_subsections

RECURSIVE CreateFrom(_, _, _, _, _)
\* the loop of create_section_hierarchy from its i-th iteration.  level is the
\* list current_level refers to; the result holds that list after the call,
\* the returned dict, its place, whether it was created by this call, and whether
\* the list it sits in is reachable from existing_sections (a list made by
\* section.get('subsections', []) on a dict without the key is not)
CreateFrom(level, section_names, i, include_subsections, loc) ==
    LET hit == FirstMatch(level, section_names[i])
        isNew == hit = 0
        section == IF isNew
                   THEN NewSection(section_names[i],
                                   WithSubsections(section_names, include_subsections))
                   ELSE level[hit]
        level1 == IF isNew THEN Append(level, section) ELSE level
        k == IF isNew THEN Len(level1) ELSE hit
    IN  IF i = Len(section_names)
        THEN [level |-> level1, node |-> section, loc |-> Append(loc, k),
              created |-> isNew, attached |-> TRUE]
        ELSE IF "subsections" \in DOMAIN section
        THEN LET r == CreateFrom(section.subsections, section_names, i + 1,
                                 include_subsections, Append(loc, k))
             IN  [r EXCEPT !.level =
                     [level1 EXCEPT ![k] = [section EXCEPT !.subsections = r.level]]]
        ELSE LET r == CreateFrom(<<>>, section_names, i + 1,
                                 include_subsections, Append(loc, k))
             IN  [r EXCEPT !.level = level1, !.attached = FALSE]

create_section_hierarchy(existing_sections, section_names, include_subsections) ==
    CreateFrom(existing_sections, section_names, 1, include_subsections, <<>>)

RECURSIVE NodeCount(_)
NodeCount(level) ==
    IF level = <<>> THEN 0
    ELSE 1 + NodeCount(GetSubsections(Head(level))) + NodeCount(Tail(level))

\* section name lists as the callers build them: at least one segment
Paths == UNION {[1..n -> Names] : n \in 1..MaxPathLen}

\* trees as a release notes JSON file can hold them
InitTrees ==
    { <<>>,
      << [name |-> "A", tickets |-> <<T1>>,
          subsections |-> << [name |-> "B", tickets |-> <<>>, subsections |-> <<>>] >>] >>,
      << [name |-> "A", tickets |-> <<T1>>] >>,
      << [name |-> "B", tickets |-> <<>>, subsections |-> <<>>],
         [name |-> "B", tickets |-> <<T1>>,
          subsections |-> << [name |-> "Z", tickets |-> <<>>] >>] >> }

NavInit ==
    /\ tree \in InitTrees
    /\ navRes = [op |-> "none"]
    /\ data = "none" /\ rendered = "none" /\ backlink = <<>> /\ meta = <<>>
    /\ adoc = "none" /\ pc = "none" /\ env = "none" /\ idxRes = [op |-> "none"]

CreateSectionHierarchy ==
    \E p \in Paths, flag \in BOOLEAN :
        /\ NodeCount(tree) + Len(p) <= MaxNodes
        /\ LET r == create_section_hierarchy(tree, p, flag)
           IN  /\ tree' = r.level
               /\ navRes' = [op |-> "create", path |-> p, flag |-> flag, pre |-> tree,
                             node |-> r.node, loc |-> r.loc, created |-> r.created,
                             attached |-> r.attached]
        /\ UNCHANGED <<data, rendered, backlink, meta, adoc, pc, env, idxRes>>

FindSection ==
    \E p \in Paths :
        LET r == find_section(tree, p)
        IN  /\ tree' = tree
            /\ navRes' = [op |-> "find", path |-> p, pre |-> tree, res |-> r]
            /\ UNCHANGED <<data, rendered, backlink, meta, adoc, pc, env, idxRes>>

NavNext ==
    \/ CreateSectionHierarchy
    \/ FindSection

SpecNav == NavInit /\ [][NavNext]_vars

----------------------------------------------------------------------------
(* Properties of the navigator                                             *)

RECURSIVE LevelAt(_, _)
\* the sibling list in which the node at place loc sits
LevelAt(level, loc) ==
    IF Len(loc) = 1 THEN level
    ELSE LevelAt(GetSubsections(level[loc[1]]), Tail(loc))

RECURSIVE ValidLoc(_, _)
ValidLoc(level, loc) ==
    /\ loc # <<>>
    /\ loc[1] \in 1..Len(level)
    /\ Len(loc) > 1 => ValidLoc(GetSubsections(level[loc[1]]), Tail(loc))

NodeAt(level, loc) == LevelAt(level, loc)[loc[Len(loc)]]

\* loc walks the first k names of p, taking at each level the first sibling
\* that carries the name
Resolves(level, p, k, loc) ==
    /\ Len(loc) = k
    /\ k > 0 => ValidLoc(level, loc)
    /\ \A j \in 1..k :
          LET sibs == LevelAt(level, SubSeq(loc, 1, j))
          IN  /\ sibs[loc[j]].name = p[j]
              /\ \A m \in 1..(loc[j] - 1) : sibs[m].name # p[j]

Locs(level, k) == [1..k -> 1..NodeCount(level)]

ChildrenAt(level, loc) ==
    IF loc = <<>> THEN level ELSE GetSubsections(NodeAt(level, loc))

RECURSIVE Preserved(_, _)
\* every node of old sits in new at the same place with the same content, so
\* whatever new holds besides was appended after old's siblings
Preserved(old, new) ==
    /\ Len(old) <= Len(new)
    /\ \A i \in 1..Len(old) :
          /\ DOMAIN old[i] = DOMAIN new[i]
          /\ \A k \in DOMAIN old[i] \ {"subsections"} : old[i][k] = new[i][k]
          /\ "subsections" \in DOMAIN old[i]
                => Preserved(old[i].subsections, new[i].subsections)

\* C4: after create_section_hierarchy(tree, path, flag), find_section(tree, path)
\* succeeds and returns the node create_section_hierarchy returned; a created
\* node is the last of its sibling list and every earlier node keeps its place
\* and content.
C4_CreateMakesPathResolvable ==
    navRes.op = "create" =>
        LET f == find_section(tree, navRes.path)
        IN  /\ f.ok
            /\ f.loc = navRes.loc
            /\ f.node = navRes.node
            /\ navRes.created => navRes.loc[Len(navRes.loc)] = Len(LevelAt(tree, navRes.loc))
            /\ Preserved(navRes.pre, tree)

\* C5: find_section walks the path by first match on the name at each level;
\* it returns the node the last segment reaches when every segment is present,
\* otherwise it fails naming the first missing segment; the tree is unchanged.
C5_FindSectionContract ==
    navRes.op = "find" =>
        LET p == navRes.path
            r == navRes.res
        IN  /\ tree = navRes.pre
            /\ r.ok =>
                  /\ Resolves(tree, p, Len(p), r.loc)
                  /\ r.node = NodeAt(tree, r.loc)
            /\ ~r.ok =>
                  \E k \in 1..Len(p) :
                      /\ r.missing = p[k]
                      /\ \E loc \in Locs(tree, k - 1) :
                            /\ Resolves(tree, p, k - 1, loc)
                            /\ \A m \in 1..Len(ChildrenAt(tree, loc)) :
                                  ChildrenAt(tree, loc)[m].name # p[k]

\* C5 witness: a failing lookup below a duplicated name, and a successful
\* two-level lookup, have both been seen from the same kind of call
C5_Witness ==
    /\ navRes.op = "find"
    /\ Len(navRes.path) = 2
    /\ ~navRes.res.ok
    /\ navRes.res.missing = navRes.path[2]
    /\ Cardinality({i \in 1..Len(tree) : tree[i].name = navRes.path[1]}) > 1

----------------------------------------------------------------------------
(* Index updater: update_antora_structure                                  *)

V1 == <<"1", ".", "0">>
V2 == <<"2", ".", "6", ".", "0">>
Versions == {V1, V2}

\* f"release-{cde_version}.adoc"
AdocFileName(cde_version) == <<"release-">> \o cde_version \o <<".adoc">>

FileNames == {AdocFileName(v) : v \in Versions}

\* f'\n* xref:releases/{asciidoc_file_name}[CDE-Release-{cde_version}]'
ReleaseNotesLine(cde_version, asciidoc_file_name) ==
    <<"\n", "* xref:releases/">> \o asciidoc_file_name
        \o <<"[CDE-Release-">> \o cde_version \o <<"]">>

\* f'    - releases/{asciidoc_file_name}\n'
MetaYmlLine(asciidoc_file_name) ==
    <<"    ", "- releases/">> \o asciidoc_file_name \o <<"\n">>

Sentinel == <<"- how-to-guides.adoc">>

RECURSIVE ReadLines(_)
\* file.readlines(): every line keeps its "\n"; a last line may have none
ReadLines(content) ==
    IF content = <<>> THEN <<>>
    ELSE LET nl == FirstTrue([i \in 1..Len(content) |-> content[i] = "\n"])
         IN  IF nl = 0 THEN <<content>>
             ELSE <<SubSeq(content, 1, nl)>>
                      \o ReadLines(SubSeq(content, nl + 1, Len(content)))

\* file.seek(0); file.writelines(lines) on a file opened 'r+': the text is
\* written over the old content from the start and nothing is truncated
WriteFromStart(old, lines) ==
    LET new == Concat(lines)
    IN  new \o SubSeq(old, Len(new) + 1, Len(old))

\* a membership test that compares whole lines of the file
ListedInReleaseNotesMutWholeLine(content, release_notes_line) ==
    InList(ReadLines(content), release_notes_line)

\* release_notes_line in content
ListedInReleaseNotes(content, release_notes_line) ==
    Contains(content, release_notes_line)

\* an insertion place one line too far
InsertIndexMutAfter(lines) ==
    LET i == FirstTrue([n \in 1..Len(lines) |-> Contains(lines[n], Sentinel)])
    IN  IF i = 0 THEN 0 ELSE i + 1

\* next(i for i, line in enumerate(lines) if '- how-to-guides.adoc' in line)
InsertIndex(lines) ==
    FirstTrue([n \in 1..Len(lines) |-> Contains(lines[n], Sentinel)])

\* the two files after update_antora_structure, and whether next() raised
\* StopIteration (release-notes.adoc is closed, hence written, before meta.yml
\* is opened)
update_antora_structure(release_notes_doc, meta_yml, cde_version, asciidoc_file_name) ==
    LET release_notes_line == ReleaseNotesLine(cde_version, asciidoc_file_name)
        doc1 == IF ~ListedInReleaseNotes(release_notes_doc, release_notes_line)
                THEN release_notes_doc \o release_notes_line
                ELSE release_notes_doc
        meta_yml_line == MetaYmlLine(asciidoc_file_name)
        lines == ReadLines(meta_yml)
        insert_index == InsertIndex(lines)
    IN  IF InList(lines, meta_yml_line)
        THEN [backlink |-> doc1, meta |-> meta_yml, raised |-> FALSE]
        ELSE IF insert_index = 0
        THEN [backlink |-> doc1, meta |-> meta_yml, raised |-> TRUE]
        ELSE [backlink |-> doc1,
              meta |-> WriteFromStart(meta_yml,
                          InsertAt(lines, insert_index, MetaYmlLine(asciidoc_file_name))),
              raised |-> FALSE]

\* pieces the two files are made of
BacklinkChunks ==
    { <<"\n">>, <<"= Release Notes">>,
      Tail(ReleaseNotesLine(V1, AdocFileName(V1))),
      Tail(ReleaseNotesLine(V2, AdocFileName(V2))) }

SentinelLine == <<"    ", "- how-to-guides.adoc", "\n">>

MetaChunks ==
    { SentinelLine,
      MetaYmlLine(AdocFileName(V1)),
      <<"    ", "- releases/">> \o AdocFileName(V1),
      <<"    ", "- index.adoc", "\n">> }

ChunkSeqs(chunks, n) == UNION {[1..k -> chunks] : k \in 0..n}

BacklinkContents == {Concat(cs) : cs \in ChunkSeqs(BacklinkChunks, MaxChunks)}
MetaContents == {Concat(cs) : cs \in ChunkSeqs(MetaChunks, MaxMetaLines)}

\* the files as they can be found: any release-notes.adoc with a plain
\* meta.yml, or any meta.yml with a plain release-notes.adoc
IndexFiles ==
    (BacklinkContents \X {SentinelLine, <<>>})
        \cup ({<<>>, <<"= Release Notes">>} \X MetaContents)

IndexInit ==
    /\ \E files \in IndexFiles : backlink = files[1] /\ meta = files[2]
    /\ idxRes = [op |-> "none", calls |-> 0]
    /\ tree = <<>> /\ navRes = "none" /\ data = "none" /\ rendered = "none"
    /\ adoc = "none" /\ pc = "none" /\ env = "none"

UpdateAntoraStructure ==
    \E v \in Versions, f \in FileNames :
        LET r == update_antora_structure(backlink, meta, v, f)
        IN  /\ idxRes.calls < MaxCalls
            /\ backlink' = r.backlink
            /\ meta' = r.meta
            /\ idxRes' = [op |-> "update", version |-> v, file |-> f,
                          preBacklink |-> backlink, preMeta |-> meta,
                          raised |-> r.raised, calls |-> idxRes.calls + 1,
                          repeat |-> /\ idxRes.op = "update"
                                     /\ idxRes.version = v
                                     /\ idxRes.file = f]
            /\ UNCHANGED <<tree, navRes, data, rendered, adoc, pc, env>>

IndexNext == UpdateAntoraStructure

SpecIndex == IndexInit /\ [][IndexNext]_vars

\* C1: a second update_antora_structure call with the arguments of the call
\* before it leaves release-notes.adoc and meta.yml as the first call left them.
C1_UpdateIdempotent ==
    (idxRes.op = "update" /\ idxRes.repeat) =>
        /\ backlink = idxRes.preBacklink
        /\ meta = idxRes.preMeta

\* C1 witness: the second of two equal calls, the first of which wrote both files
C1_Witness ==
    /\ idxRes.op = "update"
    /\ idxRes.repeat
    /\ ~idxRes.raised
    /\ Contains(backlink, ReleaseNotesLine(idxRes.version, idxRes.file))
    /\ InList(ReadLines(meta), MetaYmlLine(idxRes.file))
    /\ Len(ReadLines(meta)) >= 3

\* C6: when meta.yml lacks the line '    - releases/<filename>' and has a
\* sentinel line, the call inserts that one line immediately before a line
\* holding '- how-to-guides.adoc'; the other lines keep content and order.
C6_InsertBeforeSentinel ==
    LET before == ReadLines(idxRes.preMeta)
        after == ReadLines(meta)
    IN  ( /\ idxRes.op = "update"
          /\ ~InList(before, MetaYmlLine(idxRes.file))
          /\ \E i \in 1..Len(before) : Contains(before[i], Sentinel) )
        => \E i \in 1..Len(before) :
              /\ after = InsertAt(before, i, MetaYmlLine(idxRes.file))
              /\ Contains(after[i + 1], Sentinel)
              /\ \A j \in 1..(i - 1) : ~Contains(after[j], Sentinel)

\* C6 witness: a line was inserted between an earlier line and the sentinel,
\* with a line after the sentinel
C6_Witness ==
    LET before == ReadLines(idxRes.preMeta)
    IN  /\ idxRes.op = "update"
        /\ meta # idxRes.preMeta
        /\ Len(before) = 3
        /\ Contains(before[2], Sentinel)
        /\ ~Contains(before[1], Sentinel)

----------------------------------------------------------------------------
(* Renderer: generate_asciidoc                                             *)

CLOUD_JIRA_URL == "https://ciena-cloudjira-rd-it.atlassian.net/browse"

CHILD_PAGES_MARKER ==
    "=== Child pages (hotfixes, MCP Patches, Regression Considerations & JIRAs closed, other relevant info):"

\* str.replace('.', '-')
ReplaceDots(text) == [i \in 1..Len(text) |-> IF text[i] = "." THEN "-" ELSE text[i]]

DayOfMonth == [d \in {"1st", "15th"} |-> IF d = "1st" THEN "01" ELSE "15"]
MonthOfYear == [m \in {"January", "March"} |-> IF m = "January" THEN "01" ELSE "03"]
Years == {"2024"}

\* parser.parse(input_date) succeeds
DateParses(input_date) ==
    /\ Len(input_date) = 5
    /\ input_date[1] \in DOMAIN DayOfMonth
    /\ input_date[3] \in DOMAIN MonthOfYear
    /\ input_date[5] \in Years

\* parser.parse(input_date).strftime('%Y%m%d'), for a date that parses
convert_date(input_date) ==
    <<input_date[5], MonthOfYear[input_date[3]], DayOfMonth[input_date[1]]>>

\* f"{title}: {CLOUD_JIRA_URL}/RD-{id}[(RD-{id}) {title}]"
TicketLink(ticket) ==
    <<ticket.title, ": ", CLOUD_JIRA_URL, "/", "RD-", ticket.id,
      "[(", "RD-", ticket.id, ") ", ticket.title, "]">>

\* f"* {title}: {CLOUD_JIRA_URL}/RD-{id}[(RD-{id}) {title}].\n"
TicketLine(ticket) == <<"* ">> \o TicketLink(ticket) \o <<".", "\n">>

\* a preamble with the release heading ahead of its anchor
PreambleMutHeadingFirst(release_notes_data) ==
    << <<"# CDE User Guide">>,
       <<"include::ROOT:partial$attributes.adoc[]", "\n">>,
       <<"== ", "CDE-Release-">> \o release_notes_data.cde_version \o <<"\n">>,
       <<"[[", "cde-release-">> \o ReplaceDots(release_notes_data.cde_version) \o <<"]]">>,
       <<"=== GA Milestone:", "\n">>,
       release_notes_data.release_date \o <<"\n">>,
       <<"=== Release Overview:", "\n">>,
       release_notes_data.overview \o <<"\n">> >>

\* the first eight entries of asciidoc_content
Preamble(release_notes_data) ==
    LET version_dash == ReplaceDots(release_notes_data.cde_version)
    IN  << <<"# CDE User Guide">>,
           <<"include::ROOT:partial$attributes.adoc[]", "\n">>,
           <<"[[", "cde-release-">> \o version_dash \o <<"]]">>,
           <<"== ", "CDE-Release-">> \o release_notes_data.cde_version \o <<"\n">>,
           <<"=== GA Milestone:", "\n">>,
           release_notes_data.release_date \o <<"\n">>,
           <<"=== Release Overview:", "\n">>,
           release_notes_data.overview \o <<"\n">> >>

\* ticket.get('highlight_id') == highlight['id']
HighlightMatches(ticket, highlight) ==
    "highlight_id" \in DOMAIN ticket /\ ticket.highlight_id = highlight.id

\* the list comprehension of lines 42-45: tickets of the subsections of the
\* top-level sections that have a 'subsections' key
HighlightTickets(sections, highlight) ==
    LET withSubs == SelectSeq(sections, LAMBDA section : "subsections" \in DOMAIN section)
        perSection(section) ==
            Concat([j \in 1..Len(section.subsections) |-> section.subsections[j].tickets])
    IN  SelectSeq(Concat([i \in 1..Len(withSubs) |-> perSection(withSubs[i])]),
                  LAMBDA ticket : HighlightMatches(ticket, highlight))

\* f"* {highlight['title']} [{ticket_links}].\n"
HighlightLine(highlight, tickets) ==
    <<"* ", highlight.title, " [">>
        \o Join(<<", ">>, [i \in 1..Len(tickets) |-> TicketLink(tickets[i])])
        \o <<"]", ".", "\n">>

\* what one highlight appends to asciidoc_content
HighlightBlocks(sections, highlight) ==
    LET highlight_tickets == HighlightTickets(sections, highlight)
        ticket_links == Join(<<", ">>, [i \in 1..Len(highlight_tickets) |->
                                           TicketLink(highlight_tickets[i])])
    IN  IF ticket_links # <<>>
        THEN <<HighlightLine(highlight, highlight_tickets)>>
        ELSE <<>>

\* what one subsection appends: its heading, then its ticket lines
SubsectionBlocks(subsection) ==
    IF subsection.tickets # <<>>
    THEN << <<"==== ", subsection.name, ":", "\n">> >>
             \o [i \in 1..Len(subsection.tickets) |-> TicketLine(subsection.tickets[i])]
    ELSE << <<"==== ", subsection.name, ":", "\n">> >>

\* what one top-level section appends
SectionBlocks(sections, section) ==
    << <<"=== ", section.name, ":", "\n">> >>
        \o (IF "tickets" \in DOMAIN section
            THEN [i \in 1..Len(section.tickets) |-> TicketLine(section.tickets[i])]
            ELSE <<>>)
        \o (IF "highlights" \in DOMAIN section
            THEN Concat([i \in 1..Len(section.highlights) |->
                            HighlightBlocks(sections, section.highlights[i])])
            ELSE <<>>)
        \o (IF "subsections" \in DOMAIN section
            THEN Concat([i \in 1..Len(section.subsections) |->
                            SubsectionBlocks(section.subsections[i])])
            ELSE <<>>)

\* '\n'.join(patch_content)
PatchBlock(cde_version, patch) ==
    Join(<<"\n">>,
         << <<"\n", "=== ", "CDE-Release-">> \o cde_version \o <<"-patch-">>
                \o convert_date(patch.release_date) \o <<" (", patch.number, ")">>,
            <<"\n", "==== General Description">>,
            <<"\n", "This patch was declared Generally Available on ">>
                \o patch.release_date
                \o <<". This patch is now supported on CDE to provide the following:", "\n">> >>
         \o [i \in 1..Len(patch.tickets) |-> <<"* ", patch.tickets[i].title, "\n">>]
         \o << <<"Relevant Jira tickets are listed below:", "\n">> >>
         \o [i \in 1..Len(patch.tickets) |->
                <<"* ", CLOUD_JIRA_URL, "/", "RD-", patch.tickets[i].id, "[(",
                  "RD-", patch.tickets[i].id, ") ", patch.tickets[i].title, "]", ".", "\n">>])

\* the exception generate_asciidoc ends with, "none" when it returns
RenderError(release_notes_data) ==
    IF "cde_version" \notin DOMAIN release_notes_data THEN "KeyError: cde_version"
    ELSE IF "release_date" \notin DOMAIN release_notes_data THEN "KeyError: release_date"
    ELSE IF "overview" \notin DOMAIN release_notes_data THEN "KeyError: overview"
    ELSE IF "sections" \notin DOMAIN release_notes_data THEN "KeyError: sections"
    ELSE IF \E i \in 1..Len(release_notes_data.sections) :
               /\ "subsections" \in DOMAIN release_notes_data.sections[i]
               /\ \E j \in 1..Len(release_notes_data.sections[i].subsections) :
                     "tickets" \notin DOMAIN release_notes_data.sections[i].subsections[j]
         THEN "KeyError: tickets"
    ELSE IF /\ "patches" \in DOMAIN release_notes_data
            /\ \E i \in 1..Len(release_notes_data.patches) :
                  ~DateParses(release_notes_data.patches[i].release_date)
         THEN "ParserError"
    ELSE "none"

\* asciidoc_content when nothing raises
RenderBlocks(release_notes_data) ==
    Preamble(release_notes_data)
        \o Concat([i \in 1..Len(release_notes_data.sections) |->
                      SectionBlocks(release_notes_data.sections,
                                    release_notes_data.sections[i])])
        \o << <<CHILD_PAGES_MARKER, "\n", "\n", "***">> >>
        \o (IF "patches" \in DOMAIN release_notes_data
            THEN [i \in 1..Len(release_notes_data.patches) |->
                     PatchBlock(release_notes_data.cde_version,
                                release_notes_data.patches[i])]
            ELSE <<>>)

generate_asciidoc(release_notes_data) ==
    IF RenderError(release_notes_data) # "none"
    THEN [raised |-> TRUE, error |-> RenderError(release_notes_data)]
    ELSE [raised |-> FALSE,
          blocks |-> RenderBlocks(release_notes_data),
          text |-> Join(<<"\n">>, RenderBlocks(release_notes_data))]

\* tickets, highlights, sections and patches the inputs are built from
TAddX == [id |-> "100", title |-> "Add X"]
TFixY == [id |-> "7", title |-> "Fix Y", highlight_id |-> "H1"]
TTuneZ == [id |-> "8", title |-> "Tune Z", highlight_id |-> "H1"]
H1 == [id |-> "H1", title |-> "Faster start"]
H2 == [id |-> "H2", title |-> "New look"]

SubsectionLists ==
    { <<>>,
      << [name |-> "UI", tickets |-> <<TFixY, TAddX>>] >>,
      << [name |-> "UI", tickets |-> <<>>], [name |-> "API", tickets |-> <<TTuneZ>>] >>,
      << [name |-> "Core", tickets |-> <<>>,
          subsections |-> << [name |-> "Deep", tickets |-> <<TTuneZ>>] >>] >>,
      << [name |-> "Broken"] >> }

TopSections ==
    { [name |-> "Features", tickets |-> <<TAddX>>],
      [name |-> "Fixes", tickets |-> <<TFixY>>],
      [name |-> "Highlights", highlights |-> <<H1, H2>>],
      [name |-> "Highlights", highlights |-> <<H1>>,
       subsections |-> << [name |-> "UI", tickets |-> <<TFixY>>] >>] }
    \cup {[name |-> "Changes", subsections |-> subs] : subs \in SubsectionLists}

SectionLists == UNION {[1..n -> TopSections] : n \in 0..MaxSections}

GoodDate == <<"1st", " ", "January", " ", "2024">>

PatchLists ==
    { <<>>,
      << [number |-> "P1", release_date |-> GoodDate, tickets |-> <<TAddX>>] >>,
      << [number |-> "P1", release_date |-> <<"15th", " ", "March", " ", "2024">>,
          tickets |-> <<TAddX, TFixY>>],
         [number |-> "P2", release_date |-> <<"TBD">>, tickets |-> <<>>] >> }

FullRecords ==
    {[cde_version |-> v, release_date |-> GoodDate, overview |-> <<"Stability release">>,
      sections |-> secs, patches |-> pl] :
        v \in Versions, secs \in SectionLists, pl \in PatchLists}

\* the record without some of its keys
WithoutKeys(record, keys) == [k \in DOMAIN record \ keys |-> record[k]]

RenderInputs ==
    FullRecords
        \cup {WithoutKeys(rec, {"patches"}) : rec \in FullRecords}
        \cup {WithoutKeys(rec, {k}) :
                 rec \in {r \in FullRecords : Len(r.sections) = 1 /\ r.patches = <<>>},
                 k \in {"cde_version", "release_date", "overview", "sections"}}

RenderInit ==
    /\ data \in RenderInputs
    /\ rendered = [state |-> "none"]
    /\ tree = <<>> /\ navRes = "none" /\ backlink = <<>> /\ meta = <<>>
    /\ adoc = "none" /\ pc = "none" /\ env = "none" /\ idxRes = "none"

GenerateAsciidoc ==
    /\ rendered.state = "none"
    /\ rendered' = [state |-> "done", res |-> generate_asciidoc(data)]
    /\ UNCHANGED <<data, tree, navRes, backlink, meta, adoc, pc, env, idxRes>>

RenderNext == GenerateAsciidoc

SpecRender == RenderInit /\ [][RenderNext]_vars

----------------------------------------------------------------------------
(* Properties of the renderer                                              *)

Rendered == rendered.state = "done" /\ ~rendered.res.raised

\* places where sub starts in text
Occurrences(text, sub) ==
    {i \in 1..(Len(text) - Len(sub) + 1) : SubSeq(text, i, i + Len(sub) - 1) = sub}

\* a, b and c occur in text in that relative order
InOrder(text, a, b, c) ==
    \E i \in Occurrences(text, a), j \in Occurrences(text, b), k \in Occurrences(text, c) :
        i < j /\ j < k

RECURSIVE AllTickets(_)
\* the tickets of a section list in document order: a section's own tickets,
\* then those of its subsections, at every depth
AllTickets(sections) ==
    IF sections = <<>> THEN <<>>
    ELSE LET section == Head(sections)
         IN  (IF "tickets" \in DOMAIN section THEN section.tickets ELSE <<>>)
                 \o AllTickets(GetSubsections(section))
                 \o AllTickets(Tail(sections))

RECURSIVE AllSections(_, _)
\* every section node with its depth (1 for a top-level section)
AllSections(sections, depth) ==
    IF sections = <<>> THEN <<>>
    ELSE << [node |-> Head(sections), depth |-> depth] >>
             \o AllSections(GetSubsections(Head(sections)), depth + 1)
             \o AllSections(Tail(sections), depth)

HeadingMark(depth) ==
    CASE depth = 1 -> "=== " [] depth = 2 -> "==== " [] OTHER -> "===== "

\* C3: for every highlight of a section, a highlight line is emitted if and
\* only if some ticket anywhere in the tree carries its id, and the line links
\* exactly the matching tickets in document order.
C3_HighlightScansWholeTree ==
    Rendered =>
        \A i \in 1..Len(data.sections) :
            "highlights" \in DOMAIN data.sections[i] =>
                \A h \in 1..Len(data.sections[i].highlights) :
                    LET highlight == data.sections[i].highlights[h]
                        matching == SelectSeq(AllTickets(data.sections),
                                        LAMBDA t : HighlightMatches(t, highlight))
                        blocks == rendered.res.blocks
                    IN  IF matching # <<>>
                        THEN InList(blocks, HighlightLine(highlight, matching))
                        ELSE \A b \in 1..Len(blocks) :
                                Len(blocks[b]) >= 3 =>
                                    SubSeq(blocks[b], 1, 3) # <<"* ", highlight.title, " [">>

\* C8: every section node at any depth gets its heading, one level deeper
\* than its parent, followed by its ticket lines, also when it has no tickets.
C8_SubsectionsRenderedRecursively ==
    Rendered =>
        LET nodes == AllSections(data.sections, 1)
            blocks == rendered.res.blocks
        IN  \A n \in 1..Len(nodes) :
                LET node == nodes[n].node
                    tickets == IF "tickets" \in DOMAIN node THEN node.tickets ELSE <<>>
                IN  \E b \in 1..Len(blocks) :
                        /\ blocks[b] = <<HeadingMark(nodes[n].depth), node.name, ":", "\n">>
                        /\ b + Len(tickets) <= Len(blocks)
                        /\ \A t \in 1..Len(tickets) : blocks[b + t] = TicketLine(tickets[t])

EndToEndRecord ==
    /\ Rendered
    /\ data.cde_version = V2
    /\ data.sections = << [name |-> "Features", tickets |-> <<TAddX>>] >>

\* C7 as claimed: the document of the 2.6.0 record with section Features and
\* ticket 100 holds CDE-Release-2.6.0, cde-release-2-6-0 and RD-100 in that order.
C7_HeadingAnchorTicket ==
    EndToEndRecord =>
        InOrder(rendered.res.text,
                <<"CDE-Release-">> \o V2,
                <<"cde-release-", "2", "-", "6", "-", "0">>,
                <<"RD-", "100">>)

\* C7 amended: that document holds cde-release-2-6-0 (the anchor), then
\* CDE-Release-2.6.0 (the release heading), then RD-100, in that order.
C7_AnchorHeadingTicket ==
    EndToEndRecord =>
        InOrder(rendered.res.text,
                <<"cde-release-", "2", "-", "6", "-", "0">>,
                <<"CDE-Release-">> \o V2,
                <<"RD-", "100">>)

C7_Witness ==
    /\ EndToEndRecord
    /\ Occurrences(rendered.res.text, <<"RD-", "100">>) # {}

----------------------------------------------------------------------------
(* The pipeline: main                                                      *)

NoFile == [exists |-> FALSE]
File(content) == [exists |-> TRUE, content |-> content]

\* what load_json can return: None (it logged an error), or the decoded dict
LoadResults ==
    {[ok |-> FALSE], [ok |-> TRUE, value |-> <<>>]}
        \cup {[ok |-> TRUE, value |-> rec] :
                 rec \in {r \in RenderInputs : "sections" \in DOMAIN r => Len(r.sections) <= 1}}

\* open(filename, 'w') or file.write(content) may raise inside save_asciidoc
SaveOutcomes == {"ok", "open_fails", "write_fails"}

MainIndexFiles ==
    { <<<<>>, SentinelLine>>,
      <<<<"= Release Notes">> \o ReleaseNotesLine(V1, AdocFileName(V1)),
        MetaYmlLine(AdocFileName(V1)) \o SentinelLine>>,
      <<<<"= Release Notes">>, <<>>>> }

MainInit ==
    /\ \E found \in BOOLEAN, json \in LoadResults, save \in SaveOutcomes,
          old \in {NoFile, File(<<"old document">>)}, files \in MainIndexFiles :
          /\ env = [found |-> found, json |-> json, save |-> save, adoc0 |-> old,
                    backlink0 |-> files[1], meta0 |-> files[2]]
          /\ adoc = old
          /\ backlink = files[1]
          /\ meta = files[2]
    /\ pc = "resolve"
    /\ data = <<>>
    /\ rendered = [state |-> "none"]
    /\ tree = <<>> /\ navRes = "none" /\ idxRes = "none"

\* resolve_file_path: main returns when the JSON file is not there
MainResolve ==
    /\ pc = "resolve"
    /\ pc' = IF env.found THEN "load" ELSE "not_found"
    /\ UNCHANGED <<data, rendered, adoc, backlink, meta, env, tree, navRes, idxRes>>

\* release_notes_data = load_json(...); if release_notes_data:
MainLoad ==
    /\ pc = "load"
    /\ IF env.json.ok /\ DOMAIN env.json.value # {}
       THEN data' = env.json.value /\ pc' = "generate"
       ELSE data' = data /\ pc' = "load_failed"
    /\ UNCHANGED <<rendered, adoc, backlink, meta, env, tree, navRes, idxRes>>

\* a main that opens the output file for writing before it renders
MainGenerateMutOpenFirst ==
    /\ pc = "generate"
    /\ rendered' = [state |-> "done", res |-> generate_asciidoc(data)]
    /\ adoc' = File(<<>>)
    /\ pc' = IF rendered'.res.raised THEN "render_error" ELSE "save"
    /\ UNCHANGED <<data, backlink, meta, env, tree, navRes, idxRes>>

\* asciidoc_content = generate_asciidoc(release_notes_data); an exception
\* leaves main
MainGenerate ==
    /\ pc = "generate"
    /\ rendered' = [state |-> "done", res |-> generate_asciidoc(data)]
    /\ pc' = IF rendered'.res.raised THEN "render_error" ELSE "save"
    /\ UNCHANGED <<data, adoc, backlink, meta, env, tree, navRes, idxRes>>

\* save_asciidoc(asciidoc_content, asciidoc_file_path): an exception is logged
\* and swallowed, so main goes on either way
MainSave ==
    /\ pc = "save"
    /\ \/ env.save = "ok" /\ adoc' = File(rendered.res.text)
       \/ env.save = "open_fails" /\ adoc' = adoc
       \/ /\ env.save = "write_fails"
          /\ \E n \in {0, Len(rendered.res.text) \div 2} :
                adoc' = File(SubSeq(rendered.res.text, 1, n))
    /\ pc' = "update"
    /\ UNCHANGED <<data, rendered, backlink, meta, env, tree, navRes, idxRes>>

\* update_antora_structure(cde_version, f"release-{cde_version}.adoc")
MainUpdate ==
    /\ pc = "update"
    /\ LET r == update_antora_structure(backlink, meta, data.cde_version,
                                        AdocFileName(data.cde_version))
       IN  /\ backlink' = r.backlink
           /\ meta' = r.meta
           /\ pc' = IF r.raised THEN "update_error" ELSE "done"
    /\ UNCHANGED <<data, rendered, adoc, env, tree, navRes, idxRes>>

MainNext ==
    \/ MainResolve
    \/ MainLoad
    \/ MainGenerate
    \/ MainSave
    \/ MainUpdate

SpecMain == MainInit /\ [][MainNext]_vars

\* C2: when rendering fails, main ends in the error and neither the .adoc
\* file nor release-notes.adoc nor meta.yml has been touched.
C2_NoWriteOnRenderError ==
    (rendered.state = "done" /\ rendered.res.raised) =>
        /\ pc = "render_error"
        /\ adoc = env.adoc0
        /\ backlink = env.backlink0
        /\ meta = env.meta0

\* C2 witness: a run that failed on a patch date, after the sections rendered,
\* with an older document on disk
C2_Witness ==
    /\ pc = "render_error"
    /\ rendered.res.error = "ParserError"
    /\ adoc = File(<<"old document">>)

\* C10: the index files gain a reference in a run only if the run wrote the
\* document to disk.
C10_RegisteredOnlyIfWritten ==
    (pc \in {"done", "update_error"} /\ (backlink # env.backlink0 \/ meta # env.meta0)) =>
        /\ env.save = "ok"
        /\ adoc = File(rendered.res.text)

====
